---- MODULE Spec2Model ----
(***************************************************************************)
(* A model of the todo programs of this repository:                        *)
(*   - database.py: the module-level store todos_db / next_id,             *)
(*   - main.py: the HTTP endpoints over database.py,                       *)
(*   - simple_gemini_client.py: SimpleGeminiClient over database.py,       *)
(*   - todo_app.py: TodoApp, with its own store self.todos / self.next_id. *)
(* Each program is a process of its own (prog).  A request is received in  *)
(* one step (req) and handled, whole, in the next.                         *)
(***************************************************************************)
EXTENDS Integers, Sequences, FiniteSets, TLC

\* Bound: creates are accepted while the id counter is at most MaxId.
MaxId == 2
\* the requests a server has in flight at once
MaxTasks == 2

\* Readings of datetime.now(): the clock never runs backwards here and may
\* return the same reading twice; it saturates at the last value of Times.
Times == {0, 1}

---------------------------------------------------------------------------
(* Python values *)

\* Python's None (never a title, description or status text below).
None == "<None>"
\* A key that a dict does not hold / a field a pydantic model was not given.
Absent == "<absent>"

\* JSON values in the place of an id: a number n, the string of n's decimal
\* digits, or nothing.  Python's == between an int and a str is False.
IntV(n) == [t |-> "int", n |-> n]
StrV(n) == [t |-> "str", n |-> n]
NoneV == [t |-> "none", n |-> 0]
AbsentV == [t |-> "absent", n |-> 0]

\* x == todo.id for a stored (int) id and any value x
PyEq(id, x) == x.t = "int" /\ x.n = id

\* bool(x) of an id value: None and 0 are falsy, a non-empty str is truthy
TruthyV(x) == (x.t = "int" /\ x.n # 0) \/ x.t = "str"

\* bool(s) of a text or None
Truthy(s) == s # None /\ s # ""

\* dict.get(key) and dict.get(key, default) on a parameter that may be missing
Get(v) == IF v = Absent THEN None ELSE v
GetOr(v, default) == IF v = Absent THEN default ELSE v
GetV(v) == IF v.t = "absent" THEN NoneV ELSE v

\* int(token) of the manual commands: a digit string parses, others raise
IsDigits(tok) == tok.t = "str"
IntOf(tok) == tok.n

\* class TodoStatus(str, Enum)
TodoStatus == {"pending", "in_progress", "completed"}

\* A JSON array in the place of a status (["high"]): truthy, and not hashable,
\* so the dict lookup {...}.get(todo.status, ...) raises TypeError on it.
ArrayStatus == "<array>"
Hashable(v) == v # ArrayStatus

\* the list branches: one line per record, in the order of the collection
ListLines(db) ==
    [i \in 1..Len(db) |-> [id |-> db[i].id, title |-> db[i].title, status |-> db[i].status]]

\* the loop of the list branches raises at a status that cannot be looked up
ListRaises(db) == \E i \in 1..Len(db) : ~Hashable(db[i].status)

---------------------------------------------------------------------------
(* Sequences *)

\* list.pop(i)
Pop(s, i) == [j \in 1..(Len(s) - 1) |-> IF j < i THEN s[j] ELSE s[j + 1]]

\* the first index whose record's id equals x (0 when there is none): the
\* for-loops of get_todo, update_todo and delete_todo return at the first match
FirstIdx(s, x) ==
    IF \E i \in 1..Len(s) : PyEq(s[i].id, x)
    THEN CHOOSE i \in 1..Len(s) :
            PyEq(s[i].id, x) /\ \A j \in 1..(i - 1) : ~PyEq(s[j].id, x)
    ELSE 0

---------------------------------------------------------------------------
(* database.py *)

Todo(id, title, description, status, created_at, updated_at) ==
    [id |-> id, title |-> title, description |-> description,
     status |-> status, created_at |-> created_at, updated_at |-> updated_at]

\* get_todo: the index of the record returned, 0 for None
get_todo(db, todo_id) == FirstIdx(db, todo_id)

\* create_todo without its "next_id += 1"
create_todo_NoIncrement(db, nid, data, now) ==
    [db |-> Append(db, Todo(nid, data.title, data.description, data.status, now, now)),
     next_id |-> nid,
     id |-> nid]

\* create_todo: one reading of the clock for both timestamps; append; count
create_todo(db, nid, data, now) ==
    [db |-> Append(db, Todo(nid, data.title, data.description, data.status, now, now)),
     next_id |-> nid + 1,
     id |-> nid]

\* update_todo with dict() in place of dict(exclude_unset=True): the fields
\* that were not set are written too, as None
SetFields_Unset(todo, data) ==
    [todo EXCEPT
        !.title = Get(data.title),
        !.description = Get(data.description),
        !.status = Get(data.status)]

\* setattr for every field of TodoUpdate that was set (exclude_unset=True)
SetFields(todo, data) ==
    [todo EXCEPT
        !.title = IF data.title = Absent THEN @ ELSE data.title,
        !.description = IF data.description = Absent THEN @ ELSE data.description,
        !.status = IF data.status = Absent THEN @ ELSE data.status]

\* update_todo: found is FALSE for the None it returns on no match
update_todo(db, todo_id, data, now) ==
    LET i == FirstIdx(db, todo_id) IN
    IF i = 0
    THEN [db |-> db, found |-> FALSE]
    ELSE [db |-> [db EXCEPT ![i] = [SetFields(db[i], data) EXCEPT !.updated_at = now]],
          found |-> TRUE]

\* delete_todo popping the last record in place of the one found
delete_todo_PopLast(db, todo_id) ==
    LET i == FirstIdx(db, todo_id) IN
    IF i = 0
    THEN [db |-> db, found |-> FALSE]
    ELSE [db |-> Pop(db, Len(db)), found |-> TRUE]

\* delete_todo
delete_todo(db, todo_id) ==
    LET i == FirstIdx(db, todo_id) IN
    IF i = 0
    THEN [db |-> db, found |-> FALSE]
    ELSE [db |-> Pop(db, i), found |-> TRUE]

---------------------------------------------------------------------------
(* Results: what a handler hands back, by the message or status it carries,
   and the id the message names (0 when it names none).                    *)

Res(kind, id) == [kind |-> kind, id |-> id]
NoResult == Res("none", 0)

\* the value a handler leaves: the store, the counter, the clock, the result
Out(db, nid, clock, res) == [db |-> db, next_id |-> nid, clock |-> clock, res |-> res]

\* the id a message prints for an id value (only its digits show)
Shown(x) == x.n

---------------------------------------------------------------------------
(* models.py: what pydantic accepts for a request body *)

\* TodoCreate: title is required; status, when given, must be a TodoStatus
ValidCreate(body) ==
    body.title # Absent /\ (body.status = Absent \/ body.status \in TodoStatus)

\* TodoCreate's defaults: description None, status pending
TodoCreate(body) ==
    [title |-> body.title,
     description |-> GetOr(body.description, None),
     status |-> GetOr(body.status, "pending")]

\* TodoUpdate: every field optional; status, when given, must be a TodoStatus
ValidUpdate(body) == body.status = Absent \/ body.status \in TodoStatus

TodoUpdate(body) ==
    [title |-> body.title, description |-> body.description, status |-> body.status]

---------------------------------------------------------------------------
(* main.py: the endpoints.  rq.id is the int path parameter. *)

read_todos(db, nid, clock, rq) == Out(db, nid, clock, Res("200", 0))

read_todo(db, nid, clock, rq) ==
    LET i == get_todo(db, rq.id) IN
    IF i = 0 THEN Out(db, nid, clock, Res("404", Shown(rq.id)))
    ELSE Out(db, nid, clock, Res("200", db[i].id))

create_todo_endpoint(db, nid, clock, rq, now) ==
    IF ~ValidCreate(rq) THEN Out(db, nid, clock, Res("422", 0))
    ELSE LET c == create_todo(db, nid, TodoCreate(rq), now) IN
         Out(c.db, c.next_id, now, Res("200", c.id))

update_todo_endpoint(db, nid, clock, rq, now) ==
    IF ~ValidUpdate(rq) THEN Out(db, nid, clock, Res("422", 0))
    ELSE LET u == update_todo(db, rq.id, TodoUpdate(rq), now) IN
         IF u.found THEN Out(u.db, nid, now, Res("200", Shown(rq.id)))
         ELSE Out(db, nid, clock, Res("404", Shown(rq.id)))

delete_todo_endpoint(db, nid, clock, rq) ==
    LET d == delete_todo(db, rq.id) IN
    IF d.found THEN Out(d.db, nid, clock, Res("200", Shown(rq.id)))
    ELSE Out(db, nid, clock, Res("404", Shown(rq.id)))

---------------------------------------------------------------------------
(* simple_gemini_client.py: SimpleGeminiClient.execute_action.
   rq.id is the value under the key "todo_id"; rq.pdict says whether
   "parameters" is a dict (attribute .get exists).                        *)

Client_create(db, nid, clock, rq, now) ==
    LET title == Get(rq.title)
        description == GetOr(rq.description, "")
        status == GetOr(rq.status, "pending")
    IN  IF ~Truthy(title) THEN Out(db, nid, clock, Res("title_required", 0))
        ELSE IF status \notin TodoStatus  \* TodoStatus(status) raises ValueError
        THEN Out(db, nid, clock, Res("create_error", 0))
        ELSE LET c == create_todo(db, nid,
                        [title |-> title, description |-> description, status |-> status],
                        now)
             IN  Out(c.db, c.next_id, now, Res("created", c.id))

Client_update(db, nid, clock, rq, now) ==
    LET todo_id == GetV(rq.id) IN
    IF ~TruthyV(todo_id) THEN Out(db, nid, clock, Res("id_required", 0))
    ELSE IF rq.status # Absent /\ rq.status \notin TodoStatus
    THEN Out(db, nid, clock, Res("exec_error", 0))  \* TodoStatus(...) raises
    ELSE LET u == update_todo(db, todo_id, TodoUpdate(rq), now) IN
         IF u.found THEN Out(u.db, nid, now, Res("updated", Shown(todo_id)))
         ELSE Out(db, nid, clock, Res("not_found", Shown(todo_id)))

Client_execute_action(db, nid, clock, rq, now) ==
    IF rq.action = "list_todos" THEN Out(db, nid, clock, Res("listed", 0))
    ELSE IF rq.action \notin {"get_todo", "create_todo", "update_todo", "delete_todo"}
    THEN Out(db, nid, clock, Res("unknown_action", 0))
    ELSE IF ~rq.pdict  \* parameters.get raises AttributeError
    THEN Out(db, nid, clock, Res("exec_error", 0))
    ELSE IF rq.action = "get_todo"
    THEN LET todo_id == GetV(rq.id)
             i == get_todo(db, todo_id)
         IN  IF ~TruthyV(todo_id) THEN Out(db, nid, clock, Res("id_required", 0))
             ELSE IF i = 0 THEN Out(db, nid, clock, Res("not_found", Shown(todo_id)))
             ELSE Out(db, nid, clock, Res("shown", db[i].id))
    ELSE IF rq.action = "create_todo" THEN Client_create(db, nid, clock, rq, now)
    ELSE IF rq.action = "update_todo" THEN Client_update(db, nid, clock, rq, now)
    ELSE LET todo_id == GetV(rq.id)
             d == delete_todo(db, todo_id)
         IN  IF ~TruthyV(todo_id) THEN Out(db, nid, clock, Res("id_required", 0))
             ELSE IF d.found THEN Out(d.db, nid, clock, Res("deleted", Shown(todo_id)))
             ELSE Out(db, nid, clock, Res("not_found", Shown(todo_id)))

\* process_natural_language catching json.JSONDecodeError only, with a reply
\* that is no object taken for one
Client_process_NonObject(db, nid, clock, rq, now) ==
    IF rq.json = "not_json"
    THEN [out |-> Out(db, nid, clock, Res("parse_error", 0)), executed |-> FALSE]
    ELSE [out |-> Client_execute_action(db, nid, clock, rq, now), executed |-> TRUE]

\* process_natural_language, from the service's reply on: json.loads, the
\* two .get calls, execute_action; executed says whether execute_action ran
Client_process(db, nid, clock, rq, now) ==
    IF rq.json = "not_json"  \* json.JSONDecodeError
    THEN [out |-> Out(db, nid, clock, Res("parse_error", 0)), executed |-> FALSE]
    ELSE IF rq.json = "non_object"  \* action_data.get raises AttributeError
    THEN [out |-> Out(db, nid, clock, Res("request_error", 0)), executed |-> FALSE]
    ELSE [out |-> Client_execute_action(db, nid, clock, rq, now), executed |-> TRUE]

---------------------------------------------------------------------------
(* todo_app.py: TodoApp *)

\* add_todo: Todo.__init__ reads the clock twice (created, then updated)
TodoApp_add_todo(todos, nid, title, description, status, created, updated) ==
    [db |-> Append(todos, Todo(nid, title, description, status, created, updated)),
     next_id |-> nid + 1,
     id |-> nid]

\* get_todo: the index of the record returned, 0 for None
TodoApp_get_todo(todos, todo_id) == FirstIdx(todos, todo_id)

\* update_todo: title and status are set when truthy, description when not None
TodoApp_update_todo(todos, todo_id, title, description, status, now) ==
    LET i == TodoApp_get_todo(todos, todo_id) IN
    IF i = 0
    THEN [db |-> todos, found |-> FALSE]
    ELSE [db |-> [todos EXCEPT ![i] =
                    [@ EXCEPT
                        !.title = IF Truthy(title) THEN title ELSE @,
                        !.description = IF description # None THEN description ELSE @,
                        !.status = IF Truthy(status) THEN status ELSE @,
                        !.updated_at = now]],
          found |-> TRUE]

TodoApp_delete_todo(todos, todo_id) ==
    LET i == FirstIdx(todos, todo_id) IN
    IF i = 0
    THEN [db |-> todos, found |-> FALSE]
    ELSE [db |-> Pop(todos, i), found |-> TRUE]

\* execute_action's create branch without its "if not title"
TodoApp_create_NoTitleCheck(todos, nid, clock, rq, created, updated) ==
    LET c == TodoApp_add_todo(todos, nid, Get(rq.title), GetOr(rq.description, ""),
                              GetOr(rq.status, "pending"), created, updated)
    IN  Out(c.db, c.next_id, updated, Res("created", c.id))

\* execute_action's create branch
TodoApp_create(todos, nid, clock, rq, created, updated) ==
    LET title == Get(rq.title)
        description == GetOr(rq.description, "")
        status == GetOr(rq.status, "pending")
    IN  IF ~Truthy(title) THEN Out(todos, nid, clock, Res("title_required", 0))
        ELSE LET c == TodoApp_add_todo(todos, nid, title, description, status,
                                       created, updated)
             IN  Out(c.db, c.next_id, updated, Res("created", c.id))

\* execute_action's update branch
TodoApp_update(todos, nid, clock, rq, now) ==
    LET todo_id == GetV(rq.id) IN
    IF ~TruthyV(todo_id) THEN Out(todos, nid, clock, Res("id_required", 0))
    ELSE LET u == TodoApp_update_todo(todos, todo_id, Get(rq.title),
                                      Get(rq.description), Get(rq.status), now)
         IN  IF u.found THEN Out(u.db, nid, now, Res("updated", Shown(todo_id)))
             ELSE Out(todos, nid, clock, Res("not_found", Shown(todo_id)))

\* execute_action with the list branch as the final else
TodoApp_execute_action_ListLast(todos, nid, clock, rq, created, updated) ==
    IF rq.action \notin {"get", "create", "update", "delete"}
    THEN Out(todos, nid, clock, Res("listed", 0))
    ELSE IF ~rq.pdict
    THEN Out(todos, nid, clock, Res("exec_error", 0))
    ELSE IF rq.action = "get"
    THEN LET todo_id == GetV(rq.id)
             i == TodoApp_get_todo(todos, todo_id)
         IN  IF ~TruthyV(todo_id) THEN Out(todos, nid, clock, Res("id_required", 0))
             ELSE IF i = 0 THEN Out(todos, nid, clock, Res("not_found", Shown(todo_id)))
             ELSE IF ~Hashable(todos[i].status)
             THEN Out(todos, nid, clock, Res("exec_error", 0))
             ELSE Out(todos, nid, clock, Res("shown", todos[i].id))
    ELSE IF rq.action = "create"
    THEN TodoApp_create(todos, nid, clock, rq, created, updated)
    ELSE IF rq.action = "update" THEN TodoApp_update(todos, nid, clock, rq, created)
    ELSE LET todo_id == GetV(rq.id)
             d == TodoApp_delete_todo(todos, todo_id)
         IN  IF ~TruthyV(todo_id) THEN Out(todos, nid, clock, Res("id_required", 0))
             ELSE IF d.found THEN Out(d.db, nid, clock, Res("deleted", Shown(todo_id)))
             ELSE Out(todos, nid, clock, Res("not_found", Shown(todo_id)))

\* execute_action.  rq.id is the value under the key "id"; created and
\* updated are the clock readings a create takes (an update takes created).
TodoApp_execute_action(todos, nid, clock, rq, created, updated) ==
    IF rq.action = "list"
    THEN Out(todos, nid, clock, Res(IF ListRaises(todos) THEN "exec_error" ELSE "listed", 0))
    ELSE IF rq.action \notin {"get", "create", "update", "delete"}
    THEN Out(todos, nid, clock, Res("unknown_action", 0))
    ELSE IF ~rq.pdict  \* params.get raises AttributeError
    THEN Out(todos, nid, clock, Res("exec_error", 0))
    ELSE IF rq.action = "get"
    THEN LET todo_id == GetV(rq.id)
             i == TodoApp_get_todo(todos, todo_id)
         IN  IF ~TruthyV(todo_id) THEN Out(todos, nid, clock, Res("id_required", 0))
             ELSE IF i = 0 THEN Out(todos, nid, clock, Res("not_found", Shown(todo_id)))
             ELSE IF ~Hashable(todos[i].status)
             THEN Out(todos, nid, clock, Res("exec_error", 0))
             ELSE Out(todos, nid, clock, Res("shown", todos[i].id))
    ELSE IF rq.action = "create"
    THEN TodoApp_create(todos, nid, clock, rq, created, updated)
    ELSE IF rq.action = "update" THEN TodoApp_update(todos, nid, clock, rq, created)
    ELSE LET todo_id == GetV(rq.id)
             d == TodoApp_delete_todo(todos, todo_id)
         IN  IF ~TruthyV(todo_id) THEN Out(todos, nid, clock, Res("id_required", 0))
             ELSE IF d.found THEN Out(d.db, nid, clock, Res("deleted", Shown(todo_id)))
             ELSE Out(todos, nid, clock, Res("not_found", Shown(todo_id)))

\* process_ai_command, from the service's reply on: json.loads, the two
\* .get calls, execute_action; every exception gives the same "Error" text
TodoApp_process(todos, nid, clock, rq, created, updated) ==
    IF rq.json \in {"not_json", "non_object"}
    THEN [out |-> Out(todos, nid, clock, Res("ai_error", 0)), executed |-> FALSE]
    ELSE [out |-> TodoApp_execute_action(todos, nid, clock, rq, created, updated),
          executed |-> TRUE]

\* run's manual branch.  rq.action is parts[0].lower(), rq.n is len(parts),
\* rq.id is the token parts[1], rq.title the joined rest of the line.
TodoApp_manual(todos, nid, clock, rq, created, updated) ==
    IF rq.action = "list" THEN Out(todos, nid, clock, Res("listed", 0))
    ELSE IF rq.action = "create"
    THEN IF rq.n < 2 THEN Out(todos, nid, clock, Res("usage", 0))
         ELSE LET c == TodoApp_add_todo(todos, nid, rq.title, "", "pending",
                                        created, updated)
              IN  Out(c.db, c.next_id, updated, Res("created", c.id))
    ELSE IF rq.action = "get"
    THEN IF rq.n < 2 THEN Out(todos, nid, clock, Res("usage", 0))
         ELSE IF ~IsDigits(rq.id) THEN Out(todos, nid, clock, Res("invalid_id", 0))
         ELSE LET i == TodoApp_get_todo(todos, IntV(IntOf(rq.id))) IN
              IF i = 0 THEN Out(todos, nid, clock, Res("not_found", IntOf(rq.id)))
              ELSE Out(todos, nid, clock, Res("shown", todos[i].id))
    ELSE IF rq.action = "update"
    THEN IF rq.n < 3 THEN Out(todos, nid, clock, Res("usage", 0))
         ELSE IF ~IsDigits(rq.id) THEN Out(todos, nid, clock, Res("invalid_id", 0))
         ELSE LET u == TodoApp_update_todo(todos, IntV(IntOf(rq.id)), rq.title,
                                           None, None, created)
              IN  IF u.found THEN Out(u.db, nid, created, Res("updated", IntOf(rq.id)))
                  ELSE Out(todos, nid, clock, Res("not_found", IntOf(rq.id)))
    ELSE IF rq.action = "delete"
    THEN IF rq.n < 2 THEN Out(todos, nid, clock, Res("usage", 0))
         ELSE IF ~IsDigits(rq.id) THEN Out(todos, nid, clock, Res("invalid_id", 0))
         ELSE LET d == TodoApp_delete_todo(todos, IntV(IntOf(rq.id))) IN
              IF d.found THEN Out(d.db, nid, clock, Res("deleted", IntOf(rq.id)))
              ELSE Out(todos, nid, clock, Res("not_found", IntOf(rq.id)))
    ELSE Out(todos, nid, clock, Res("unknown_command", 0))

---------------------------------------------------------------------------
(* State *)

VARIABLES
    prog,          \* the program running: "todo_app", "client" or "api"
    api_key,       \* os.getenv('GEMINI_API_KEY')
    gemini_model,  \* whether a generative model was configured
    todos_db,      \* database.todos_db
    next_id,       \* database.next_id
    todos,         \* TodoApp.todos
    self_next_id,  \* TodoApp.next_id
    clock,         \* the last reading of datetime.now()
    pc,            \* where the program is in its request cycle
    req,           \* the request, reply or command in hand
    result,        \* the result of the last cycle
    executed,      \* whether execute_action ran in the last cycle
    issued,        \* the ids create has returned, in call order
    deleted,       \* the ids delete has removed
    listing,       \* the lines of the last result, when it is a list
    tasks,         \* the POST /todos requests the server has in flight
    running        \* the task that holds the event loop, 0 for none

vars == <<prog, api_key, gemini_model, todos_db, next_id, todos, self_next_id, clock,
          pc, req, result, executed, issued, deleted, listing, tasks, running>>

\* the store of the program running
Db == IF prog = "todo_app" THEN todos ELSE todos_db
Nid == IF prog = "todo_app" THEN self_next_id ELSE next_id

---------------------------------------------------------------------------
(* Inputs *)

\* GEMINI_API_KEY: not set, the placeholder of the .env template, a key
ApiKeys == {None, "your-api-key-here", "key"}

IdVals == {AbsentV, StrV(1)} \cup {IntV(i) : i \in 1..MaxId}
PathIds == {IntV(i) : i \in 1..MaxId}
Tokens == {StrV(i) : i \in 1..MaxId} \cup {[t |-> "word", n |-> 0]}

Fields(title, description, status) ==
    [title |-> title, description |-> description, status |-> status]

\* the fields a create is asked with: no title, an empty one, a title, a
\* description, a status of the enum and one outside it
CreateFields ==
    {Fields(t, Absent, Absent) : t \in {Absent, "", "A"}}
    \cup {Fields("A", "d", Absent), Fields("A", Absent, "completed"),
          Fields("A", Absent, "done")}

\* the fields an update is asked with: every subset of the three fields,
\* an empty title, a status outside the enum
UpdateFields(title) ==
    {Fields(t, d, s) : t \in {Absent, title}, d \in {Absent, "d"}, s \in {Absent, "completed"}}
    \cup {Fields("", Absent, Absent), Fields(Absent, Absent, "done")}

\* an update that reaches no record is asked with one field or none
FewFields(title) == {Fields(Absent, Absent, Absent), Fields(title, Absent, Absent)}

Req(kind, json, action, pdict, n, id, title, description, status) ==
    [kind |-> kind, json |-> json, action |-> action, pdict |-> pdict, n |-> n,
     id |-> id, title |-> title, description |-> description, status |-> status]

NoReq == Req("none", "", "", TRUE, 0, AbsentV, Absent, Absent, Absent)

\* a reply that is a JSON object: its action and its parameters
Intent(action, pdict, id, title, description, status) ==
    Req("reply", "object", action, pdict, 0, id, title, description, status)

\* the service's replies: text that is not JSON, JSON that is no object, and
\* objects with the program's action names, an unknown one and none at all
Replies(list, get, create, update, delete, title) ==
    {Req("reply", j, "", TRUE, 0, AbsentV, Absent, Absent, Absent) :
        j \in {"not_json", "non_object"}}
    \cup {Intent(a, TRUE, AbsentV, Absent, Absent, Absent) : a \in {list, "archive", None}}
    \cup {Intent(a, FALSE, AbsentV, Absent, Absent, Absent) : a \in {list, get, create, update, delete}}
    \cup {Intent(a, TRUE, i, Absent, Absent, Absent) : a \in {get, delete}, i \in IdVals}
    \cup {Intent(create, TRUE, AbsentV, f.title, f.description, f.status) :
            f \in CreateFields}
    \cup {Intent(update, TRUE, i, f.title, f.description, f.status) :
            i \in PathIds, f \in UpdateFields(title)}
    \cup {Intent(update, TRUE, i, f.title, f.description, f.status) :
            i \in IdVals \ PathIds, f \in FewFields(title)}

AppReplies == Replies("list", "get", "create", "update", "delete", "B")

\* a reply whose status is no text at all: JSON puts any value there
ArrayReplies == {Intent("create", TRUE, AbsentV, "A", Absent, ArrayStatus)}
ClientReplies ==
    Replies("list_todos", "get_todo", "create_todo", "update_todo", "delete_todo", "A")

\* the lines typed in manual mode, split
Commands ==
    {Req("manual", "", c, TRUE, 1, AbsentV, Absent, Absent, Absent) :
        c \in {"list", "create", "get", "update", "delete", "foo"}}
    \cup {Req("manual", "", "create", TRUE, 2, AbsentV, "A", Absent, Absent)}
    \cup {Req("manual", "", c, TRUE, 2, k, Absent, Absent, Absent) :
            c \in {"get", "update", "delete"}, k \in Tokens}
    \cup {Req("manual", "", "update", TRUE, 3, k, "B", Absent, Absent) : k \in Tokens}

\* the HTTP requests that reach a route
HttpRequests ==
    {Req("http", "", "list", TRUE, 0, AbsentV, Absent, Absent, Absent)}
    \cup {Req("http", "", a, TRUE, 0, i, Absent, Absent, Absent) :
            a \in {"get", "delete"}, i \in PathIds}
    \cup {Req("http", "", "create", TRUE, 0, AbsentV, f.title, f.description, f.status) :
            f \in CreateFields}
    \cup {Req("http", "", "update", TRUE, 0, i, f.title, f.description, f.status) :
            i \in PathIds, f \in UpdateFields("A")}

IsCreate(rq) == rq.action \in {"create", "create_todo"}

\* the POST /todos requests whose body pydantic accepts: only these reach
\* create_todo_endpoint
CreateRequests == {rq \in HttpRequests : IsCreate(rq) /\ ValidCreate(rq)}

\* a request of the server: the coroutine of its endpoint, where it stands,
\* the id of the Todo it has built (0 before) and whether another request was
\* in flight when it began to run
Tasks == 1..MaxTasks
Task(at, rq, id, overlapped) ==
    [pc |-> at, rq |-> rq, id |-> id, overlapped |-> overlapped]
NoTask == Task("none", NoReq, 0, FALSE)

\* datetime.now(): the last reading, or the next value of Times
Now(t) == {u \in Times : u = t \/ u = t + 1}

---------------------------------------------------------------------------
(* Init and the steps *)

\* the key test without its comparison with the placeholder
KeyUsable_AnyText(key) == Truthy(key)

\* TodoApp.__init__: "if api_key and api_key != 'your-api-key-here'";
\* SimpleGeminiClient.__init__ raises ValueError on the negation of it
KeyUsable(key) == Truthy(key) /\ key # "your-api-key-here"

\* the state after construction.  A usable key gives a model unless
\* configure raises; TodoApp goes on without a model, and main() of the
\* client prints the error and returns.  main.py reads no credential.
Init ==
    /\ prog \in {"todo_app", "client", "api"}
    /\ api_key \in ApiKeys
    /\ gemini_model \in BOOLEAN
    /\ gemini_model => KeyUsable(api_key)
    /\ (prog = "api") => api_key = None /\ ~gemini_model
    /\ todos_db = <<>>
    /\ next_id = 1
    /\ todos = <<>>
    /\ self_next_id = 1
    /\ clock = 0
    /\ pc = IF prog = "client" /\ ~gemini_model THEN "stopped" ELSE "idle"
    /\ req = NoReq
    /\ result = NoResult
    /\ listing = <<>>
    /\ executed = FALSE
    /\ issued = <<>>
    /\ deleted = {}
    /\ tasks = [t \in Tasks |-> NoTask]
    /\ running = 0

\* what a handler leaves behind, and the loop back to the prompt
Finish(out, ran) ==
    /\ IF prog = "todo_app"
       THEN /\ todos' = out.db
            /\ self_next_id' = out.next_id
            /\ UNCHANGED <<todos_db, next_id>>
       ELSE /\ todos_db' = out.db
            /\ next_id' = out.next_id
            /\ UNCHANGED <<todos, self_next_id>>
    /\ clock' = out.clock
    /\ result' = out.res
    /\ listing' = IF out.res.kind = "listed" THEN ListLines(out.db) ELSE <<>>
    /\ executed' = ran
    /\ issued' = IF Len(out.db) > Len(Db) THEN Append(issued, out.res.id) ELSE issued
    /\ deleted' = IF Len(out.db) < Len(Db) THEN deleted \cup {out.res.id} ELSE deleted
    /\ pc' = "idle"
    /\ req' = NoReq
    /\ UNCHANGED <<prog, api_key, gemini_model, tasks, running>>

\* run / interactive_mode: a line is read and handed to the resolver, which
\* calls the service (generate_content) and waits
UserRequest ==
    /\ prog \in {"todo_app", "client"}
    /\ gemini_model
    /\ pc = "idle"
    /\ pc' = "resolving"
    /\ result' = NoResult
    /\ listing' = <<>>
    /\ executed' = FALSE
    /\ UNCHANGED <<prog, api_key, gemini_model, tasks, running, todos_db, next_id, todos, self_next_id,
                   clock, req, issued, deleted>>

\* the service answers with some text
ServiceReplies ==
    /\ pc = "resolving"
    /\ \E rq \in (IF prog = "todo_app" THEN AppReplies ELSE ClientReplies) :
        /\ IsCreate(rq) => Nid <= MaxId
        /\ req' = rq
    /\ pc' = "replied"
    /\ UNCHANGED <<prog, api_key, gemini_model, tasks, running, todos_db, next_id, todos, self_next_id,
                   clock, result, listing, executed, issued, deleted>>

\* generate_content raises (an error of the service, a timeout it reports):
\* the except clause of the resolver turns it into a message
ServiceRaises ==
    /\ pc = "resolving"
    /\ Finish(Out(Db, Nid, clock,
                  Res(IF prog = "todo_app" THEN "ai_error" ELSE "request_error", 0)),
              FALSE)

\* process_ai_command / process_natural_language, from the reply on
Process ==
    /\ pc = "replied"
    /\ \E created \in Now(clock) : \E updated \in Now(created) :
        LET p == IF prog = "todo_app"
                 THEN TodoApp_process(Db, Nid, clock, req, created, updated)
                 ELSE Client_process(Db, Nid, clock, req, created)
        IN  Finish(p.out, p.executed)

\* run without a model: a line is read and split
ManualInput ==
    /\ prog = "todo_app"
    /\ ~gemini_model
    /\ pc = "idle"
    /\ \E rq \in Commands :
        /\ IsCreate(rq) => Nid <= MaxId
        /\ req' = rq
    /\ pc' = "manual"
    /\ result' = NoResult
    /\ listing' = <<>>
    /\ executed' = FALSE
    /\ UNCHANGED <<prog, api_key, gemini_model, tasks, running, todos_db, next_id, todos, self_next_id,
                   clock, issued, deleted>>

ManualCommand ==
    /\ pc = "manual"
    /\ \E created \in Now(clock) : \E updated \in Now(created) :
        Finish(TodoApp_manual(Db, Nid, clock, req, created, updated), FALSE)

\* main.py: a request reaches its route
HttpRequest ==
    /\ prog = "api"
    /\ pc = "idle"
    /\ \E rq \in HttpRequests :
        /\ IsCreate(rq) => Nid <= MaxId
        /\ req' = rq
    /\ pc' = "handling"
    /\ result' = NoResult
    /\ listing' = <<>>
    /\ executed' = FALSE
    /\ UNCHANGED <<prog, api_key, gemini_model, tasks, running, todos_db, next_id, todos, self_next_id,
                   clock, issued, deleted>>

Endpoint ==
    /\ pc = "handling"
    /\ \E now \in Now(clock) :
        Finish(CASE req.action = "list" -> read_todos(Db, Nid, clock, req)
                 [] req.action = "get" -> read_todo(Db, Nid, clock, req)
                 [] req.action = "create" -> create_todo_endpoint(Db, Nid, clock, req, now)
                 [] req.action = "update" -> update_todo_endpoint(Db, Nid, clock, req, now)
                 [] OTHER -> delete_todo_endpoint(Db, Nid, clock, req),
               FALSE)

\* quit, exit, q or Ctrl-C at the prompt: the loop ends
Quit ==
    /\ prog \in {"todo_app", "client"}
    /\ pc = "idle"
    /\ pc' = "exited"
    /\ UNCHANGED <<prog, api_key, gemini_model, tasks, running, todos_db, next_id, todos, self_next_id,
                   clock, req, result, listing, executed, issued, deleted>>

Next ==
    \/ UserRequest
    \/ ServiceReplies
    \/ ServiceRaises
    \/ Process
    \/ ManualInput
    \/ ManualCommand
    \/ HttpRequest
    \/ Endpoint
    \/ Quit

Spec == Init /\ [][Next]_vars

---------------------------------------------------------------------------
(* The programs when the service may also put a JSON array where a status is
   expected.                                                               *)

ServiceRepliesArray ==
    /\ pc = "resolving"
    /\ prog = "todo_app"
    /\ Nid <= MaxId
    /\ \E rq \in ArrayReplies : req' = rq
    /\ pc' = "replied"
    /\ UNCHANGED <<prog, api_key, gemini_model, tasks, running, todos_db, next_id, todos, self_next_id,
                   clock, result, listing, executed, issued, deleted>>

NextAnyJson == Next \/ ServiceRepliesArray

SpecAnyJson == Init /\ [][NextAnyJson]_vars

---------------------------------------------------------------------------
(* The server with several requests in flight.  uvicorn.run(app) is one
   process with one event loop; every endpoint is a coroutine (async def),
   and the loop runs a coroutine until it awaits.                          *)

\* create_todo_endpoint with an await between the statements of create_todo
create_todo_endpoint_Awaits == TRUE

\* create_todo_endpoint calls create_todo and awaits nothing: it cannot be
\* suspended between its first statement and its return
create_todo_endpoint_awaits == FALSE

ConcInit == Init /\ prog = "api"

\* a POST /todos arrives and its coroutine is scheduled
Accept(t) ==
    /\ tasks[t].pc = "none"
    /\ \E rq \in CreateRequests : tasks' = [tasks EXCEPT ![t] = Task("accepted", rq, 0, FALSE)]
    /\ UNCHANGED <<prog, api_key, gemini_model, todos_db, next_id, todos, self_next_id,
                   clock, pc, req, result, listing, executed, issued, deleted, running>>

\* the loop, free, runs the coroutine: create_todo reads the clock, builds
\* the Todo with id=next_id and appends it
Allocate(t) ==
    /\ running = 0
    /\ tasks[t].pc = "accepted"
    /\ \E now \in Now(clock) :
        /\ todos_db' = create_todo(todos_db, next_id, TodoCreate(tasks[t].rq), now).db
        /\ clock' = now
    /\ tasks' = [tasks EXCEPT ![t] =
                    Task("appended", @.rq, next_id,
                         \E u \in Tasks : u # t /\ tasks[u].pc \in {"accepted", "appended"})]
    /\ running' = IF create_todo_endpoint_awaits THEN 0 ELSE t
    /\ UNCHANGED <<prog, api_key, gemini_model, next_id, todos, self_next_id,
                   pc, req, result, listing, executed, issued, deleted>>

\* create_todo goes on: next_id += 1, return todo; the response is sent
Increment(t) ==
    /\ running \in {0, t}
    /\ tasks[t].pc = "appended"
    /\ next_id' = next_id + 1
    /\ issued' = Append(issued, tasks[t].id)
    /\ tasks' = [tasks EXCEPT ![t] = Task("done", @.rq, @.id, @.overlapped)]
    /\ running' = 0
    /\ UNCHANGED <<prog, api_key, gemini_model, todos_db, todos, self_next_id,
                   clock, pc, req, result, listing, executed, deleted>>

ConcNext == \E t \in Tasks : Accept(t) \/ Allocate(t) \/ Increment(t)

ConcSpec == ConcInit /\ [][ConcNext]_vars

\* The program's own steps are taken when they can be; nothing makes the
\* service answer, and nothing makes the user type.
FairSpec ==
    Spec /\ WF_vars(Process) /\ WF_vars(ManualCommand) /\ WF_vars(Endpoint)

---------------------------------------------------------------------------
(* What the properties below speak of *)

\* the store after the step
DbNext == IF prog = "todo_app" THEN todos' ELSE todos_db'
NidNext == IF prog = "todo_app" THEN self_next_id' ELSE next_id'
StoreUnchanged == DbNext = Db /\ NidNext = Nid

\* the step is the handling of the request in hand
Handling == pc \in {"replied", "handling", "manual"} /\ pc' = "idle"

\* the request in hand is an Intent: a JSON object whose parameters are one
IsIntent == pc = "replied" /\ req.json = "object" /\ req.pdict

ActsGet == {"get", "get_todo"}
ActsCreate == {"create", "create_todo"}
ActsUpdate == {"update", "update_todo"}
ActsDelete == {"delete", "delete_todo"}

HasRecord(db, n) == \E i \in 1..Len(db) : db[i].id = n
IndexOf(db, n) == CHOOSE i \in 1..Len(db) : db[i].id = n

FieldNames == {"title", "description", "status"}

---------------------------------------------------------------------------
(* C1 *)

\* C1: every create returns an id strictly greater than the id of every
\* earlier create; no two records share an id; the id of a deleted record
\* is never assigned again (no record carries it).
C1_IdsStrictlyIncreasing ==
    /\ \A i, j \in 1..Len(issued) : i < j => issued[i] < issued[j]
    /\ \A i, j \in 1..Len(Db) : i # j => Db[i].id # Db[j].id
    /\ \A i \in 1..Len(Db) : Db[i].id \notin deleted

\* a second create after a delete: two ids issued, one of them deleted
C1_Witness == Len(issued) >= 2 /\ deleted # {} /\ Len(Db) >= 1

---------------------------------------------------------------------------
(* C2 *)

\* C2: an Intent get, update or delete whose id, a JSON number or a string
\* of digits, denotes an existing record is applied to that record and does
\* not report "not found" (an update's status being one of the enum).
C2_IdAsNumberOrString ==
    [][(/\ IsIntent
        /\ pc' = "idle"
        /\ req.action \in ActsGet \cup ActsUpdate \cup ActsDelete
        /\ req.id.t \in {"int", "str"}
        /\ HasRecord(Db, req.id.n)
        /\ req.status \in TodoStatus \cup {Absent})
       => /\ result'.kind # "not_found"
          /\ req.action \in ActsGet => result' = Res("shown", req.id.n)
          /\ req.action \in ActsUpdate => result' = Res("updated", req.id.n)
          /\ req.action \in ActsDelete =>
                result' = Res("deleted", req.id.n) /\ ~HasRecord(DbNext, req.id.n)]_vars

---------------------------------------------------------------------------
(* C3 *)

\* C3: in every reachable state the status of every stored record is one of
\* pending, in_progress, completed.
C3_StatusInEnum == \A i \in 1..Len(Db) : Db[i].status \in TodoStatus

---------------------------------------------------------------------------
(* C4 *)

\* C4: in every reachable state the title of every stored record is
\* non-empty.
C4_TitleNonEmpty == \A i \in 1..Len(Db) : Truthy(Db[i].title)

---------------------------------------------------------------------------
(* C5 *)

\* the step is an update that reached a record
UpdateDone ==
    /\ Handling
    /\ req.action \in ActsUpdate
    /\ result'.kind \in {"updated", "200"}

\* the record updated keeps its place, its id and its created_at; the other
\* records, the order and the id counter are as before
UpdateFrame(i) ==
    /\ Len(DbNext) = Len(Db)
    /\ \A j \in 1..Len(Db) : j # i => DbNext[j] = Db[j]
    /\ NidNext = Nid
    /\ DbNext[i].id = Db[i].id
    /\ DbNext[i].created_at = Db[i].created_at
    /\ \A f \in FieldNames : req[f] = Absent => DbNext[i][f] = Db[i][f]

---------------------------------------------------------------------------
(* C6 *)

\* the id value handed to the store's delete, when the request reaches it
DeleteArg == IF req.kind = "manual" THEN IntV(IntOf(req.id)) ELSE GetV(req.id)

DeleteCalled ==
    /\ Handling
    /\ req.action \in ActsDelete
    /\ \/ IsIntent /\ TruthyV(DeleteArg)
       \/ req.kind = "http"
       \/ req.kind = "manual" /\ req.n >= 2 /\ IsDigits(req.id)

\* C6: delete of an id that has a record reports success and removes that
\* record only, keeping the others in order; delete of an id that has none
\* reports failure and leaves the collection and the counter as they were;
\* a deleted id has no record in any later state (get finds none).
C6_Delete ==
    [][/\ \A n \in deleted' : get_todo(DbNext, IntV(n)) = 0
       /\ DeleteCalled =>
            IF \E i \in 1..Len(Db) : PyEq(Db[i].id, DeleteArg)
            THEN /\ result'.kind \in {"deleted", "200"}
                 /\ DbNext = SelectSeq(Db, LAMBDA t : t.id # DeleteArg.n)
                 /\ Len(DbNext) = Len(Db) - 1
                 /\ NidNext = Nid
            ELSE /\ result'.kind \in {"not_found", "404"}
                 /\ StoreUnchanged]_vars

\* the first of two records was deleted, the second is left
C6_Witness ==
    /\ result.kind \in {"deleted", "200"}
    /\ deleted = {1}
    /\ Len(Db) = 1 /\ Db[1].id = 2

---------------------------------------------------------------------------
(* C7 *)

MissingId ==
    req.action \in ActsGet \cup ActsUpdate \cup ActsDelete /\ req.id = AbsentV
MissingTitle == req.action \in ActsCreate /\ req.title = Absent

\* C7: an Intent without its required parameter is answered with the
\* message that names the parameter, and the store is not touched.
C7_MissingParameter ==
    [][(IsIntent /\ pc' = "idle") =>
         /\ MissingId => result'.kind = "id_required" /\ StoreUnchanged
         /\ MissingTitle => result'.kind = "title_required" /\ StoreUnchanged]_vars

\* the executor refused an Intent that carried no id, two records stored
C7_Witness ==
    /\ result.kind = "id_required"
    /\ executed
    /\ Len(Db) = 2

---------------------------------------------------------------------------
(* C8 *)

\* C8: a reply that is not JSON, or JSON that is not an object, ends the
\* request with an error of the resolver; execute_action is not invoked and
\* the store is unchanged.
C8_ParseError ==
    [][(pc = "replied" /\ pc' = "idle" /\ req.json \in {"not_json", "non_object"}) =>
         /\ result'.kind \in {"ai_error", "parse_error", "request_error"}
         /\ ~executed'
         /\ StoreUnchanged]_vars

\* a reply that is not JSON was turned down, with a record stored
C8_Witness == result.kind = "parse_error" /\ ~executed /\ Len(Db) >= 1

---------------------------------------------------------------------------
(* C9 *)

\* C9: a reply whose action is none of the recognized ones ("archive") is
\* answered "unknown action", and the store is unchanged.
C9_UnknownAction ==
    [][(pc = "replied" /\ pc' = "idle" /\ req.json = "object"
        /\ req.action = "archive") =>
         /\ result'.kind = "unknown_action"
         /\ StoreUnchanged]_vars

\* an unknown action was turned down, with a record stored
C9_Witness == result.kind = "unknown_action" /\ Len(Db) >= 1

---------------------------------------------------------------------------
(* C10 *)

\* C10: every request cycle completes: a request that is being resolved
\* always comes back to the prompt, whatever the service does.
C10_CycleCompletes == (pc = "resolving") ~> (pc = "idle")

---------------------------------------------------------------------------
(* C11 *)

\* C11: every record has updated_at >= created_at; every update that matches
\* a record, one that supplies no field included, leaves updated_at strictly
\* greater than it was; created_at of a record never changes.
C11_UpdatedAtStrictlyGreater ==
    [][/\ \A j \in 1..Len(DbNext) : DbNext[j].updated_at >= DbNext[j].created_at
       /\ \A i \in 1..Len(Db) : \A j \in 1..Len(DbNext) :
            DbNext[j].id = Db[i].id => DbNext[j].created_at = Db[i].created_at
       /\ UpdateDone =>
            /\ HasRecord(Db, req.id.n)
            /\ LET i == IndexOf(Db, req.id.n) IN
               DbNext[i].updated_at > Db[i].updated_at]_vars

---------------------------------------------------------------------------
(* C12 *)

\* C12: with several create requests in flight, a create that has taken its
\* id and appended its record holds the event loop until it has counted, so
\* no other create runs in between; the records stored carry distinct ids,
\* the ids handed back are distinct, and once no create is half-way the id
\* counter is one past the largest id assigned.
C12_CreateIndivisible ==
    /\ \A t \in Tasks : tasks[t].pc = "appended" => running = t
    /\ \A i, j \in 1..Len(todos_db) : i # j => todos_db[i].id # todos_db[j].id
    /\ \A i, j \in 1..Len(issued) : i # j => issued[i] # issued[j]
    /\ running = 0 =>
         /\ \A i \in 1..Len(todos_db) : todos_db[i].id < next_id
         /\ next_id = 1 \/ \E i \in 1..Len(todos_db) : todos_db[i].id = next_id - 1

\* every request was served, and one of them ran while another was in flight
C12_Witness ==
    /\ \A t \in Tasks : tasks[t].pc = "done"
    /\ \E t \in Tasks : tasks[t].overlapped
    /\ Len(todos_db) >= 2
    /\ running = 0

---------------------------------------------------------------------------
(* C13 *)

\* the credential is absent or is the placeholder
CredentialMissing == api_key \in {None, "your-api-key-here"}

\* no model was made, and the service is not being called
ServiceUnused == ~gemini_model /\ pc \notin {"resolving", "replied"}

\* the program is at its prompt, where a direct operation is accepted, or is
\* carrying one out, or the user has left it
DirectUsable ==
    /\ pc \in {"idle", "manual", "handling", "exited"}
    /\ pc = "idle" => ENABLED (ManualInput \/ HttpRequest)

\* C13 as stated: with the credential absent or the placeholder, the service
\* is never called, the program has not ended by itself, and the direct
\* operations are accepted and carried out at every later request.
C13_DirectOperationsUsable ==
    CredentialMissing => ServiceUnused /\ DirectUsable

\* C13, amended: with the credential absent or the placeholder, the service
\* is never called; TodoApp and the HTTP layer accept and carry out the
\* direct operations at every later request; the client, which has no
\* direct operation, has printed how to set the credential and stopped
\* without taking a request.
C13_DirectOperationsOrStopped ==
    CredentialMissing =>
        /\ ServiceUnused
        /\ IF prog = "client"
           THEN pc = "stopped" /\ todos_db = <<>> /\ result = NoResult
           ELSE DirectUsable

\* without a credential TodoApp has created, deleted and updated records
C13_Witness ==
    /\ prog = "todo_app"
    /\ CredentialMissing
    /\ deleted # {}
    /\ Len(todos) >= 1
    /\ result.kind = "updated"

---------------------------------------------------------------------------
(* C14 *)

\* C14: a list Intent (action list, empty parameters) does not fail, leaves
\* the store and the id counter as they were, and its result holds one line
\* for every record stored, each record once, in the order of creation.
C14_ListReturnsAll ==
    [][(/\ IsIntent
        /\ pc' = "idle"
        /\ req.action \in {"list", "list_todos"}
        /\ req.id = AbsentV
        /\ \A f \in FieldNames : req[f] = Absent)
       => /\ result'.kind = "listed"
          /\ StoreUnchanged
          /\ Len(listing') = Len(Db)
          /\ \A i \in 1..Len(Db) : listing'[i].id = Db[i].id
          /\ \A i, j \in 1..Len(listing') : i < j => listing'[i].id < listing'[j].id]_vars

====
